---- MODULE Spec2Model ----
(***************************************************************************)
(* ERC-20 ledger of src/lib.rs (ink! contract Erc20).                      *)
(*                                                                         *)
(* The contract state is total_supply and the two Mappings; a Mapping is   *)
(* modelled as a function whose DOMAIN is the set of keys that hold an     *)
(* entry.  The host runs one message at a time: a message handler runs to  *)
(* completion and leaves its reply and the events it emitted, which the    *)
(* host then hands over (Return) before the next message is dispatched.    *)
(*                                                                         *)
(* Balance is u128 in the source; the model keeps an unsigned type of      *)
(* MaxBalance + 1 values.  `to_balance + value` (line 103) is an unchecked *)
(* `+`: with overflow checks compiled in it panics and the host reverts    *)
(* the message, without them it wraps.  Both builds are modelled.          *)
(*                                                                         *)
(* Account ids are opaque keys; three of them are kept.  Allowances are    *)
(* granted to the spenders in Spenders, by any owner, themselves included. *)
(*                                                                         *)
(* unspent is a history variable, not contract state: for each (owner,     *)
(* spender) pair, the value of the owner's latest approve for the spender  *)
(* (0 before any) minus the values of the spender's successful             *)
(* transfer_from calls on the owner since then.                            *)
(***************************************************************************)
EXTENDS Integers, Sequences, FiniteSets, TLC

VARIABLES total_supply, balances, allowances, reply, emitted, unspent

vars == <<total_supply, balances, allowances, reply, emitted, unspent>>

\* The largest value of the model's Balance type (u128::MAX in the source).
MaxBalance == 2

Accounts == {"a1", "a2", "a3"}
Spenders == {"a3"}
Balance == 0..MaxBalance
Modulus == MaxBalance + 1
Builds == {"wrapping", "checked"}

\* ---- ink_storage::Mapping ----
get(m, k) == IF k \in DOMAIN m THEN m[k] ELSE 0

insert(m, k, v) == [x \in (DOMAIN m) \cup {k} |-> IF x = k THEN v ELSE m[x]]

EmptyMapping == [x \in {} |-> 0]

\* ---- events ----
Transfer(from, to, value) == [event |-> "Transfer", from |-> from, to |-> to, value |-> value]

Approve(owner, spender, value) == [event |-> "Approve", owner |-> owner, spender |-> spender, value |-> value]

None == "None"

\* ---- queries ----
balance_of_impl(bals, owner) == get(bals, owner)

balance_of(owner) == get(balances, owner)

allowance_impl(alls, owner, spender) == get(alls, <<owner, spender>>)

allowance(owner, spender) == allowance_impl(allowances, owner, spender)

\* ---- the shared transfer primitive ----
\* A slip that tests the recipient's balance instead of the sender's.
transfer_from_to_checks_recipient(bals, from, to, value, build) ==
    LET from_balance == balance_of_impl(bals, from)
        to_balance == balance_of_impl(bals, to)
    IN  IF to_balance < value
        THEN [result |-> "InsufficientBalance", balances |-> bals, events |-> <<>>]
        ELSE [result |-> "Ok",
              balances |-> insert(insert(bals, from, (from_balance - value + Modulus) % Modulus),
                                  to, (to_balance + value) % Modulus),
              events |-> <<Transfer(from, to, value)>>]

\* A slip that writes the recipient's balance back before the balance check.
transfer_from_to_touches_recipient(bals, from, to, value, build) ==
    LET from_balance == balance_of_impl(bals, from)
        to_balance == balance_of_impl(bals, to)
        touched == insert(bals, to, to_balance)
    IN  IF from_balance < value
        THEN [result |-> "InsufficientBalance", balances |-> touched, events |-> <<>>]
        ELSE LET debited == insert(bals, from, from_balance - value)
             IN  IF to_balance + value > MaxBalance /\ build = "checked"
                 THEN [result |-> "Panic", balances |-> bals, events |-> <<>>]
                 ELSE [result |-> "Ok",
                       balances |-> insert(debited, to, (to_balance + value) % Modulus),
                       events |-> <<Transfer(from, to, value)>>]

\* A slip that writes the debit, saturating at 0, before the balance is checked.
transfer_from_to_debits_before_check(bals, from, to, value, build) ==
    LET from_balance == balance_of_impl(bals, from)
        left == IF from_balance < value THEN 0 ELSE from_balance - value
        debited == insert(bals, from, left)
    IN  IF from_balance < value
        THEN [result |-> "InsufficientBalance", balances |-> debited, events |-> <<>>]
        ELSE LET to_balance == balance_of_impl(bals, to)
             IN  IF to_balance + value > MaxBalance /\ build = "checked"
                 THEN [result |-> "Panic", balances |-> bals, events |-> <<>>]
                 ELSE [result |-> "Ok",
                       balances |-> insert(debited, to, (to_balance + value) % Modulus),
                       events |-> <<Transfer(from, to, value)>>]

\* A slip that emits the constructor's event shape, without a source account.
transfer_from_to_emits_mint(bals, from, to, value, build) ==
    LET from_balance == balance_of_impl(bals, from) IN
    IF from_balance < value
    THEN [result |-> "InsufficientBalance", balances |-> bals, events |-> <<>>]
    ELSE LET to_balance == balance_of_impl(bals, to)
             debited == insert(bals, from, from_balance - value)
         IN  IF to_balance + value > MaxBalance /\ build = "checked"
             THEN [result |-> "Panic", balances |-> bals, events |-> <<>>]
             ELSE [result |-> "Ok",
                   balances |-> insert(debited, to, (to_balance + value) % Modulus),
                   events |-> <<Transfer(None, to, value)>>]

transfer_from_to(bals, from, to, value, build) ==
    LET from_balance == balance_of_impl(bals, from) IN
    IF from_balance < value
    THEN [result |-> "InsufficientBalance", balances |-> bals, events |-> <<>>]
    ELSE LET to_balance == balance_of_impl(bals, to)
             debited == insert(bals, from, from_balance - value)
         IN  IF to_balance + value > MaxBalance /\ build = "checked"
             THEN [result |-> "Panic", balances |-> bals, events |-> <<>>]
             ELSE [result |-> "Ok",
                   balances |-> insert(debited, to, (to_balance + value) % Modulus),
                   events |-> <<Transfer(from, to, value)>>]

\* ---- approve ----
\* A slip that adds the new value to the allowance already granted.
approve_impl_additive(alls, owner, spender, value) ==
    [result |-> "Ok",
     allowances |-> insert(alls, <<owner, spender>>, (get(alls, <<owner, spender>>) + value) % Modulus),
     events |-> <<Approve(owner, spender, value)>>]

approve_impl(alls, owner, spender, value) ==
    [result |-> "Ok",
     allowances |-> insert(alls, <<owner, spender>>, value),
     events |-> <<Approve(owner, spender, value)>>]

\* ---- transfer_from ----
\* A slip that moves the balance before it looks at the allowance.
transfer_from_impl_transfers_first(bals, alls, caller, from, to, value, build) ==
    LET allowance_ == get(alls, <<from, caller>>)
        r == transfer_from_to(bals, from, to, value, build)
    IN  IF r.result # "Ok"
        THEN [result |-> r.result, balances |-> bals, allowances |-> alls, events |-> <<>>]
        ELSE IF allowance_ < value
        THEN [result |-> "InsufficientAllowance", balances |-> r.balances, allowances |-> alls,
              events |-> r.events]
        ELSE [result |-> "Ok", balances |-> r.balances,
              allowances |-> insert(alls, <<from, caller>>, allowance_ - value),
              events |-> r.events]

\* A slip that writes the decremented allowance before the transfer is tried.
transfer_from_impl_decrements_first(bals, alls, caller, from, to, value, build) ==
    LET allowance_ == get(alls, <<from, caller>>) IN
    IF allowance_ < value
    THEN [result |-> "InsufficientAllowance", balances |-> bals, allowances |-> alls, events |-> <<>>]
    ELSE LET spent == insert(alls, <<from, caller>>, allowance_ - value)
             r == transfer_from_to(bals, from, to, value, build)
         IN  IF r.result = "Panic"
             THEN [result |-> "Panic", balances |-> bals, allowances |-> alls, events |-> <<>>]
             ELSE [result |-> r.result, balances |-> r.balances, allowances |-> spent,
                   events |-> r.events]

\* A slip that writes the decremented allowance under (spender, owner).
transfer_from_impl_swapped_key(bals, alls, caller, from, to, value, build) ==
    LET allowance_ == get(alls, <<from, caller>>) IN
    IF allowance_ < value
    THEN [result |-> "InsufficientAllowance", balances |-> bals, allowances |-> alls, events |-> <<>>]
    ELSE LET r == transfer_from_to(bals, from, to, value, build) IN
         IF r.result # "Ok"
         THEN [result |-> r.result, balances |-> bals, allowances |-> alls, events |-> <<>>]
         ELSE [result |-> "Ok", balances |-> r.balances,
               allowances |-> insert(alls, <<caller, from>>, allowance_ - value),
               events |-> r.events]

\* A slip that leaves out the write of the decremented allowance.
transfer_from_impl_keeps_allowance(bals, alls, caller, from, to, value, build) ==
    LET allowance_ == get(alls, <<from, caller>>) IN
    IF allowance_ < value
    THEN [result |-> "InsufficientAllowance", balances |-> bals, allowances |-> alls, events |-> <<>>]
    ELSE LET r == transfer_from_to(bals, from, to, value, build) IN
         IF r.result # "Ok"
         THEN [result |-> r.result, balances |-> bals, allowances |-> alls, events |-> <<>>]
         ELSE [result |-> "Ok", balances |-> r.balances, allowances |-> alls, events |-> r.events]

\* A slip that spends without comparing the allowance with the value.
transfer_from_impl_unchecked_allowance(bals, alls, caller, from, to, value, build) ==
    LET allowance_ == get(alls, <<from, caller>>)
        r == transfer_from_to(bals, from, to, value, build)
    IN  IF r.result # "Ok"
        THEN [result |-> r.result, balances |-> bals, allowances |-> alls, events |-> <<>>]
        ELSE [result |-> "Ok", balances |-> r.balances,
              allowances |-> insert(alls, <<from, caller>>, (allowance_ - value + Modulus) % Modulus),
              events |-> r.events]

transfer_from_impl(bals, alls, caller, from, to, value, build) ==
    LET allowance_ == get(alls, <<from, caller>>) IN
    IF allowance_ < value
    THEN [result |-> "InsufficientAllowance", balances |-> bals, allowances |-> alls, events |-> <<>>]
    ELSE LET r == transfer_from_to(bals, from, to, value, build) IN
         IF r.result # "Ok"
         THEN [result |-> r.result, balances |-> bals, allowances |-> alls, events |-> <<>>]
         ELSE [result |-> "Ok", balances |-> r.balances,
               allowances |-> insert(alls, <<from, caller>>, allowance_ - value),
               events |-> r.events]

\* ---- construction ----
\* A slip that credits the caller and leaves total_supply at its default.
new_init_forgets_supply(caller, initial_supply) ==
    [total_supply |-> 0,
     balances |-> insert(EmptyMapping, caller, initial_supply),
     allowances |-> EmptyMapping,
     events |-> <<Transfer(None, caller, initial_supply)>>]

new_init(caller, initial_supply) ==
    [total_supply |-> initial_supply,
     balances |-> insert(EmptyMapping, caller, initial_supply),
     allowances |-> EmptyMapping,
     events |-> <<Transfer(None, caller, initial_supply)>>]

\* ---- replies ----
\* The answer of the message that ran last, with the call it answers: `from`
\* is the debited account (the caller of transfer and of approve), `to` the
\* credited account (the spender of approve).
NoReply == [op |-> "none", caller |-> None, from |-> None, to |-> None, value |-> 0, result |-> "none"]

Reply(op, caller, from, to, value, result) ==
    [op |-> op, caller |-> caller, from |-> from, to |-> to, value |-> value, result |-> result]

Idle == reply = NoReply

Init ==
    \E caller \in Accounts, initial_supply \in Balance :
        LET c == new_init(caller, initial_supply) IN
        /\ total_supply = c.total_supply
        /\ balances = c.balances
        /\ allowances = c.allowances
        /\ emitted = c.events
        /\ reply = Reply("new", caller, None, caller, initial_supply, "Ok")
        /\ unspent = [p \in Accounts \X Accounts |-> 0]

\* ---- messages ----
\* A slip that books a successful transfer onto total_supply as well.
transfer_mints(caller, to, value) ==
    /\ Idle
    /\ \E r \in {transfer_from_to(balances, caller, to, value, build) : build \in Builds} :
        /\ balances' = r.balances
        /\ emitted' = r.events
        /\ reply' = Reply("transfer", caller, caller, to, value, r.result)
        /\ total_supply' = IF r.result = "Ok" THEN (total_supply + value) % Modulus ELSE total_supply
    /\ UNCHANGED <<allowances, unspent>>

transfer(caller, to, value) ==
    /\ Idle
    /\ \E r \in {transfer_from_to(balances, caller, to, value, build) : build \in Builds} :
        /\ balances' = r.balances
        /\ emitted' = r.events
        /\ reply' = Reply("transfer", caller, caller, to, value, r.result)
    /\ UNCHANGED <<total_supply, allowances, unspent>>

approve(caller, spender, value) ==
    /\ Idle
    /\ LET r == approve_impl(allowances, caller, spender, value) IN
        /\ allowances' = r.allowances
        /\ emitted' = r.events
        /\ reply' = Reply("approve", caller, caller, spender, value, r.result)
    /\ unspent' = [unspent EXCEPT ![<<caller, spender>>] = value]
    /\ UNCHANGED <<total_supply, balances>>

transfer_from(caller, from, to, value) ==
    /\ Idle
    /\ \E r \in {transfer_from_impl(balances, allowances, caller, from, to, value, build) : build \in Builds} :
        /\ balances' = r.balances
        /\ allowances' = r.allowances
        /\ emitted' = r.events
        /\ reply' = Reply("transfer_from", caller, from, to, value, r.result)
        /\ unspent' = IF r.result = "Ok"
                      THEN [unspent EXCEPT ![<<from, caller>>] = @ - value]
                      ELSE unspent
    /\ UNCHANGED total_supply

Return ==
    /\ ~Idle
    /\ reply' = NoReply
    /\ emitted' = <<>>
    /\ UNCHANGED <<total_supply, balances, allowances, unspent>>

Next ==
    \/ \E caller, to \in Accounts, value \in Balance :
          transfer(caller, to, value)
    \/ \E caller \in Accounts, spender \in Spenders, value \in Balance :
          approve(caller, spender, value)
    \/ \E caller \in Spenders, from, to \in Accounts, value \in Balance :
          transfer_from(caller, from, to, value)
    \/ Return

Spec == Init /\ [][Next]_vars

\* ---- observations used by the properties ----
RECURSIVE SumOfBalances(_, _)
SumOfBalances(bals, accounts) ==
    IF accounts = {} THEN 0
    ELSE LET a == CHOOSE x \in accounts : TRUE
         IN  get(bals, a) + SumOfBalances(bals, accounts \ {a})

Pairs == Accounts \X Accounts

\* No account reads a different balance after the step.
BalancesUnchanged == \A a \in Accounts : get(balances', a) = get(balances, a)

\* No (owner, spender) pair reads a different allowance after the step.
AllowancesUnchanged == \A p \in Pairs : get(allowances', p) = get(allowances, p)

\* C1: in every reachable state the balances of all accounts add up to
\* total_supply.
C1_Conservation == SumOfBalances(balances, Accounts) = total_supply

\* C2: a successful transfer or transfer_from whose from and to are the same
\* account leaves that account's balance as it was before the call.
C2_SelfTransferNoOp ==
    [][(/\ reply'.op \in {"transfer", "transfer_from"}
        /\ reply'.result = "Ok"
        /\ reply'.from = reply'.to)
       => get(balances', reply'.from) = get(balances, reply'.from)]_vars

\* C3: a transfer by a caller whose balance is below the value returns
\* InsufficientBalance, changes no balance and no allowance, and emits no event.
C3_TransferInsufficientBalance ==
    [][(reply'.op = "transfer" /\ balance_of(reply'.caller) < reply'.value)
       => (/\ reply'.result = "InsufficientBalance"
           /\ BalancesUnchanged
           /\ balances' = balances
           /\ AllowancesUnchanged
           /\ total_supply' = total_supply
           /\ emitted' = <<>>)]_vars

C3_Witness ==
    /\ reply.op = "transfer"
    /\ reply.result = "InsufficientBalance"
    /\ 0 < balance_of(reply.caller)
    /\ balance_of(reply.caller) < reply.value

\* C4: a transfer_from by a spender whose allowance from the owner is below
\* the value returns InsufficientAllowance, changes no balance and no
\* allowance, and emits no event.
C4_TransferFromInsufficientAllowance ==
    [][(reply'.op = "transfer_from" /\ allowance(reply'.from, reply'.caller) < reply'.value)
       => (/\ reply'.result = "InsufficientAllowance"
           /\ BalancesUnchanged
           /\ AllowancesUnchanged
           /\ allowances' = allowances
           /\ emitted' = <<>>)]_vars

C4_Witness ==
    /\ reply.op = "transfer_from"
    /\ reply.result = "InsufficientAllowance"
    /\ 0 < allowance(reply.from, reply.caller)
    /\ allowance(reply.from, reply.caller) < reply.value
    /\ balance_of(reply.from) >= reply.value

\* C5: a transfer_from whose allowance covers the value while the owner's
\* balance does not returns InsufficientBalance and leaves every allowance,
\* the spent one included, and every balance as before.
C5_TransferFromInsufficientBalance ==
    [][(/\ reply'.op = "transfer_from"
        /\ allowance(reply'.from, reply'.caller) >= reply'.value
        /\ balance_of(reply'.from) < reply'.value)
       => (/\ reply'.result = "InsufficientBalance"
           /\ AllowancesUnchanged
           /\ BalancesUnchanged)]_vars

C5_Witness ==
    /\ reply.op = "transfer_from"
    /\ reply.result = "InsufficientBalance"
    /\ allowance(reply.from, reply.caller) >= reply.value
    /\ balance_of(reply.from) < reply.value
    /\ \E p \in Pairs : p # <<reply.from, reply.caller>> /\ get(allowances, p) > 0

\* C6: a successful transfer_from between two different accounts lowers the
\* spender's allowance and the owner's balance by the value, raises the
\* recipient's balance by the value, and changes no other allowance or balance.
C6_TransferFromEffect ==
    [][(/\ reply'.op = "transfer_from"
        /\ reply'.result = "Ok"
        /\ reply'.from # reply'.to)
       => (/\ get(allowances', <<reply'.from, reply'.caller>>)
                = allowance(reply'.from, reply'.caller) - reply'.value
           /\ get(balances', reply'.from) = balance_of(reply'.from) - reply'.value
           /\ get(balances', reply'.to) = balance_of(reply'.to) + reply'.value
           /\ \A p \in Pairs \ {<<reply'.from, reply'.caller>>} :
                  get(allowances', p) = get(allowances, p)
           /\ \A a \in Accounts \ {reply'.from, reply'.to} :
                  get(balances', a) = get(balances, a))]_vars

\* C7: a successful transfer to another account lowers the caller's balance
\* and raises the recipient's by the value; no other balance, no allowance
\* and not total_supply changes.
C7_TransferEffect ==
    [][(/\ reply'.op = "transfer"
        /\ reply'.result = "Ok"
        /\ reply'.to # reply'.caller)
       => (/\ get(balances', reply'.caller) = balance_of(reply'.caller) - reply'.value
           /\ get(balances', reply'.to) = balance_of(reply'.to) + reply'.value
           /\ \A a \in Accounts \ {reply'.caller, reply'.to} :
                  get(balances', a) = get(balances, a)
           /\ AllowancesUnchanged
           /\ total_supply' = total_supply)]_vars

\* C8: approve always returns Ok, sets the allowance of (caller, spender) to
\* exactly the value whatever it was before, and changes no balance, no other
\* allowance and not total_supply.
C8_ApproveOverwrites ==
    [][reply'.op = "approve"
       => (/\ reply'.result = "Ok"
           /\ get(allowances', <<reply'.caller, reply'.to>>) = reply'.value
           /\ \A p \in Pairs \ {<<reply'.caller, reply'.to>>} :
                  get(allowances', p) = get(allowances, p)
           /\ BalancesUnchanged
           /\ total_supply' = total_supply)]_vars

C8_Witness ==
    /\ reply.op = "approve"
    /\ reply.value > balance_of(reply.caller)
    /\ allowance(reply.caller, reply.to) = reply.value
    /\ \E p \in Pairs : p # <<reply.caller, reply.to>> /\ get(allowances, p) > reply.value

\* C9: right after new(initial_supply) by caller c, total_supply and c's
\* balance are initial_supply, every other balance is 0 and every allowance
\* is 0.
C9_AfterNew ==
    reply.op = "new"
    => (/\ total_supply = reply.value
        /\ balance_of(reply.caller) = reply.value
        /\ \A a \in Accounts \ {reply.caller} : balance_of(a) = 0
        /\ \A p \in Pairs : allowance(p[1], p[2]) = 0)

C9_Witness ==
    /\ reply.op = "new"
    /\ reply.value = MaxBalance
    /\ balance_of(reply.caller) = MaxBalance

\* C10: no transfer, approve or transfer_from, successful or failed, changes
\* total_supply.
C10_TotalSupplyImmutable == [][total_supply' = total_supply]_vars

C10_Witness ==
    /\ reply.op = "transfer"
    /\ reply.result = "Ok"
    /\ reply.value > 0
    /\ SumOfBalances(balances, Accounts) # total_supply

\* C11: the events of a call mirror it: construction emits exactly one
\* Transfer from None to the caller with the initial supply; a successful
\* transfer or transfer_from emits exactly one Transfer from `from` to `to`
\* with the value, and no event after construction has from = None; a failed
\* transfer or transfer_from emits nothing; approve emits exactly one Approve
\* with the caller as owner, the spender and the value.
C11_EventsMirrorCalls ==
    /\ reply.op = "new"
         => emitted = <<Transfer(None, reply.caller, reply.value)>>
    /\ (reply.op \in {"transfer", "transfer_from"} /\ reply.result = "Ok")
         => (/\ emitted = <<Transfer(reply.from, reply.to, reply.value)>>
             /\ reply.from \in Accounts)
    /\ (reply.op \in {"transfer", "transfer_from"} /\ reply.result # "Ok")
         => emitted = <<>>
    /\ reply.op = "approve"
         => emitted = <<Approve(reply.caller, reply.to, reply.value)>>
    /\ reply.op # "new"
         => \A i \in 1..Len(emitted) :
               emitted[i].event = "Transfer" => emitted[i].from # None

C11_Witness ==
    /\ reply.op = "transfer_from"
    /\ reply.result = "Ok"
    /\ reply.value > 0
    /\ emitted = <<Transfer(reply.from, reply.to, reply.value)>>

\* C12: a transfer or transfer_from that passes its checks and whose credit
\* balance_of(to) + value exceeds the largest Balance is rejected with an
\* ordinary error and no change of state: it neither returns Ok with a wrapped
\* balance stored nor ends in a panic.
C12_CreditOverflowGuarded ==
    [][(/\ reply'.op \in {"transfer", "transfer_from"}
        /\ balance_of(reply'.from) >= reply'.value
        /\ reply'.op = "transfer_from" => allowance(reply'.from, reply'.caller) >= reply'.value
        /\ balance_of(reply'.to) + reply'.value > MaxBalance)
       => (/\ reply'.result \in {"InsufficientBalance", "InsufficientAllowance"}
           /\ balances' = balances
           /\ allowances' = allowances
           /\ total_supply' = total_supply)]_vars

\* C13: a transfer or transfer_from succeeds, and so subtracts, only when the
\* balance of `from` is at least the value and, for transfer_from, the
\* allowance is at least the value; every balance and allowance stored by any
\* call is a Balance, never the result of an underflow.
C13_NoUnderflow ==
    [][/\ (reply'.op \in {"transfer", "transfer_from"} /\ reply'.result = "Ok")
            => (/\ balance_of(reply'.from) >= reply'.value
                /\ reply'.op = "transfer_from"
                     => allowance(reply'.from, reply'.caller) >= reply'.value)
       /\ \A a \in DOMAIN balances' : balances'[a] \in Balance
       /\ \A p \in DOMAIN allowances' : allowances'[p] \in Balance]_vars

C13_Witness ==
    /\ reply.op = "transfer_from"
    /\ reply.result = "Ok"
    /\ reply.from # reply.to
    /\ reply.value > 0
    /\ <<reply.from, reply.caller>> \in DOMAIN allowances
    /\ allowance(reply.from, reply.caller) = 0
    /\ balance_of(reply.from) = 0

C15_AllowanceCheckedFirst ==
    [][reply'.op = "transfer_from"
       => (/\ (/\ allowance(reply'.from, reply'.caller) < reply'.value
               /\ balance_of(reply'.from) < reply'.value)
                => reply'.result = "InsufficientAllowance"
           /\ reply'.result = "InsufficientBalance"
                => allowance(reply'.from, reply'.caller) >= reply'.value)]_vars

C15_Witness ==
    /\ reply.op = "transfer_from"
    /\ reply.result = "InsufficientAllowance"
    /\ 0 < allowance(reply.from, reply.caller)
    /\ allowance(reply.from, reply.caller) < reply.value
    /\ balance_of(reply.from) < reply.value

\* C16: in every reachable state no account's balance exceeds total_supply.
C16_SupplyBoundsBalances == \A a \in Accounts : balance_of(a) <= total_supply

\* C17: for every owner and spender, the values of the spender's successful
\* transfer_from calls on the owner since the owner's latest approve for the
\* spender (since construction, with 0 approved, if there is none) never add
\* up to more than the approved value.
C17_SpendingCapped == \A p \in Pairs : unspent[p] >= 0

C17_Witness ==
    /\ reply.op = "transfer_from"
    /\ reply.result = "Ok"
    /\ reply.value > 0
    /\ reply.value < MaxBalance
    /\ unspent[<<reply.from, reply.caller>>] = 0

\* C18: in a single call the balance of an account a goes down only if the
\* call is a successful transfer by a, or a successful transfer_from from a
\* whose caller's allowance from a covered the value before the call;
\* approve and failed calls lower no balance.
C18_DebitsAuthorized ==
    [][\A a \in Accounts :
         get(balances', a) < get(balances, a)
         => \/ /\ reply'.op = "transfer"
               /\ reply'.result = "Ok"
               /\ reply'.caller = a
            \/ /\ reply'.op = "transfer_from"
               /\ reply'.result = "Ok"
               /\ reply'.from = a
               /\ allowance(a, reply'.caller) >= reply'.value]_vars

\* C19: the allowance of a pair (o, s) changes in a call only if the call is
\* an approve of s by o or a successful transfer_from from o called by s;
\* transfer changes no allowance and no call changes a pair it does not name.
C19_AllowanceFrame ==
    [][\A p \in Pairs :
         get(allowances', p) # get(allowances, p)
         => \/ /\ reply'.op = "approve"
               /\ p = <<reply'.caller, reply'.to>>
            \/ /\ reply'.op = "transfer_from"
               /\ reply'.result = "Ok"
               /\ p = <<reply'.from, reply'.caller>>]_vars

C19_Witness ==
    /\ reply.op = "transfer_from"
    /\ reply.result = "Ok"
    /\ reply.value > 0
    /\ reply.from # reply.caller
    /\ \E p \in Pairs : p # <<reply.from, reply.caller>> /\ get(allowances, p) > 0

\* C20, as claimed: in every reachable state no entry of the balances Mapping
\* holds the value 0.
C20_NoZeroEntries == \A a \in DOMAIN balances : balances[a] # 0

\* C20, amended: the balances Mapping gets an entry only for an account the
\* contract has written: after construction the caller's is the only entry,
\* and a call adds entries only for the `from` and `to` of a successful
\* transfer or transfer_from.  Such an entry may hold 0.
C20_EntriesOnlyWhenWritten ==
    /\ [](reply.op = "new" => DOMAIN balances = {reply.caller})
    /\ [][DOMAIN balances' \subseteq
            DOMAIN balances \cup
              (IF reply'.op \in {"transfer", "transfer_from"} /\ reply'.result = "Ok"
               THEN {reply'.from, reply'.to}
               ELSE {})]_vars

C20_Witness ==
    /\ reply.op = "transfer"
    /\ reply.result = "Ok"
    /\ reply.value > 0
    /\ reply.from \in DOMAIN balances
    /\ balances[reply.from] = 0
    /\ \E a \in Accounts : a \notin DOMAIN balances

====
